---- MODULE Spec2Model ----
(***************************************************************************)
(* Proty content calendar: the in-memory post store of App, the PostModal  *)
(* edit buffer, and the month grid of Calendar.                            *)
(*                                                                         *)
(* Time.  A Date is an instant, an integer number of clock ticks since the *)
(* epoch (1970-01-01T00:00).  A tick stands for the millisecond of the     *)
(* JavaScript clock; a day is TicksPerDay ticks long.  Local time is taken *)
(* to be UTC with no daylight saving.  Calendar fields are computed from   *)
(* the day number the way ECMAScript's Date does (Day, YearFromTime,       *)
(* MonthFromTime, DateFromTime, WeekDay, MakeDay).                         *)
(***************************************************************************)
EXTENDS Integers, Sequences, FiniteSets, TLC

VARIABLES
    now,                  \* the system clock (what new Date() reads)
    today,                \* Calendar's `today`, read at the last render
    currentDate,          \* App state: the displayed month
    daysInMonth,          \* Calendar: the day cells' dates, as last rendered
    posts,                \* App state: the post list
    postsByDate,          \* App useMemo: day key -> posts, keyed on `posts`
    isModalOpen,          \* App state
    selectedPost,         \* App state: <<>> is null, <<p>> is the post p
    selectedDate,         \* App state: <<>> is null, <<d>> is the date d
    images,               \* PostModal state (edit buffer)
    caption,              \* PostModal state (edit buffer)
    status,               \* PostModal state (edit buffer)
    comments,             \* PostModal state (edit buffer)
    newComment,           \* PostModal state
    isGeneratingCaption,  \* PostModal state
    currentIndex,         \* ImageCarousel state: the image shown (0-based)
    API_KEY,              \* geminiService: whether process.env.API_KEY is set
    requests,             \* suggestCaption calls in flight, oldest first
    uploads,              \* handleImageUpload batches whose readers are still loading
    edits,                \* how many buffer edits and direct calls were explored
    lastOp                \* observation: the last handler that ran and how it ended

vars == <<now, today, currentDate, daysInMonth, posts, postsByDate, isModalOpen, selectedPost,
          selectedDate, images, caption, status, comments, newComment,
          isGeneratingCaption, currentIndex, API_KEY, requests, uploads, edits, lastOp>>

appVars == <<currentDate, daysInMonth, posts, postsByDate, isModalOpen, selectedPost, selectedDate>>

bufferVars == <<images, caption, status, comments, newComment, isGeneratingCaption,
               currentIndex>>

asyncVars == <<API_KEY, requests, uploads>>

-----------------------------------------------------------------------------
(* Bounds of the model.                                                    *)

\* Clock ticks in one day (the clock's resolution within a day).
TicksPerDay == 2

\* How many ticks the clock may advance after the application starts.
MaxClock == 1

\* The longest post list explored.
MaxPosts == 3

\* How many edits of the modal's buffer are explored in one run.
MaxEdits == 1

\* How many months the displayed month may move away from the start.
MaxNav == 13

\* The same, where posts are created in the months visited.
GridNav == 1

\* How many suggestion requests may be in flight where requests are not
\* counted as edits.
MaxRequests == 2

\* Upload batches whose readers run at the same time, and the buffer's images,
\* in the carousel's specification.
MaxUploads == 1
MaxImages == 4

-----------------------------------------------------------------------------
(* ECMAScript date arithmetic on day numbers.                              *)

Day(t) == t \div TicksPerDay

TimeWithinDay(t) == t % TicksPerDay

IsLeap(y) == (y % 4 = 0 /\ y % 100 # 0) \/ y % 400 = 0

DayFromYear(y) ==
    365 * (y - 1970) + ((y - 1969) \div 4) - ((y - 1901) \div 100) + ((y - 1601) \div 400)

YearFromDay(d) ==
    CHOOSE y \in (1970 + (d \div 366) - 1) .. (1970 + (d \div 365) + 1) :
        DayFromYear(y) <= d /\ d < DayFromYear(y + 1)

\* First day-within-year of each month (index 1 = January), common and leap.
CommonMonthStart == <<0, 31, 59, 90, 120, 151, 181, 212, 243, 273, 304, 334, 365>>

LeapMonthStart == <<0, 31, 60, 91, 121, 152, 182, 213, 244, 274, 305, 335, 366>>

MonthStart(y) == IF IsLeap(y) THEN LeapMonthStart ELSE CommonMonthStart

\* Month index 0..11.
MonthFromDay(d) ==
    LET y == YearFromDay(d)
        w == d - DayFromYear(y)
        ms == MonthStart(y)
    IN  CHOOSE m \in 0..11 : ms[m + 1] <= w /\ w < ms[m + 2]

\* Day of the month 1..31.
DateFromDay(d) ==
    LET y == YearFromDay(d)
        w == d - DayFromYear(y)
        ms == MonthStart(y)
        m == CHOOSE k \in 0..11 : ms[k + 1] <= w /\ w < ms[k + 2]
    IN  w - ms[m + 1] + 1

WeekDay(d) == (d + 4) % 7

\* Day number of (year, month, date); month and date may be out of range.
MakeDay(year, month, date) ==
    LET ym == year + (month \div 12)
        mn == month % 12
    IN  DayFromYear(ym) + MonthStart(ym)[mn + 1] + date - 1

(* Date methods.                                                           *)

getFullYear(t) == YearFromDay(Day(t))

getMonth(t) == MonthFromDay(Day(t))

getDate(t) == DateFromDay(Day(t))

getDay(t) == WeekDay(Day(t))

\* new Date(year, month, date): local midnight of that day.
NewDate(year, month, date) == MakeDay(year, month, date) * TicksPerDay

\* date.setDate(n): same month and time of day, day-of-month n.
setDate(t, n) ==
    LET y == getFullYear(t)
        ms == MonthStart(y)
        w == Day(t) - DayFromYear(y)
        m == CHOOSE k \in 0..11 : ms[k + 1] <= w /\ w < ms[k + 2]
    IN  MakeDay(y, m, n) * TicksPerDay + TimeWithinDay(t)

DAY_NAMES == <<"Sun", "Mon", "Tue", "Wed", "Thu", "Fri", "Sat">>

MONTH_ABBR ==
    <<"Jan", "Feb", "Mar", "Apr", "May", "Jun", "Jul", "Aug", "Sep", "Oct", "Nov", "Dec">>

Pad2(n) == IF n < 10 THEN "0" \o ToString(n) ELSE ToString(n)

Pad3(n) == IF n < 10 THEN "00" \o ToString(n) ELSE IF n < 100 THEN "0" \o ToString(n) ELSE ToString(n)

\* Mutant of toDateString: the key is the day of the month alone.
toDateStringDayOnly(t) == Pad2(getDate(t))

\* Date.prototype.toDateString: "Fri Mar 01 2024" (no time of day).
toDateString(t) ==
    DAY_NAMES[getDay(t) + 1] \o " " \o MONTH_ABBR[getMonth(t) + 1] \o " "
        \o Pad2(getDate(t)) \o " " \o ToString(getFullYear(t))

\* Date.prototype.toISOString: "2024-03-01T00:00:00.001Z"; the ticks within
\* the day are the string's time part.
toISOString(t) ==
    ToString(getFullYear(t)) \o "-" \o Pad2(getMonth(t) + 1) \o "-" \o Pad2(getDate(t))
        \o "T00:00:00." \o Pad3(TimeWithinDay(t)) \o "Z"

-----------------------------------------------------------------------------
(* Calendar: the month grid.  Rendering is a function of currentDate, so   *)
(* the variable daysInMonth is rebuilt where currentDate changes.          *)

firstDayOfMonth(cd) == NewDate(getFullYear(cd), getMonth(cd), 1)

\* Mutant of lastDayOfMonth: day 1 of the next month instead of day 0.
lastDayOfMonthNextFirst(cd) == NewDate(getFullYear(cd), getMonth(cd) + 1, 1)

lastDayOfMonth(cd) == NewDate(getFullYear(cd), getMonth(cd) + 1, 0)

\* for (date = first; date <= last; date.setDate(date.getDate() + 1)) push(date)
RECURSIVE daysLoop(_, _, _)
daysLoop(date, last, acc) ==
    IF date <= last
    THEN daysLoop(setDate(date, getDate(date) + 1), last, Append(acc, date))
    ELSE acc

buildDaysInMonth(cd) == daysLoop(firstDayOfMonth(cd), lastDayOfMonth(cd), <<>>)

startingDayOfWeek(cd) == getDay(firstDayOfMonth(cd))

\* Mutant of isToday: the year is not compared.
isTodayNoYear(date, td) ==
    /\ getDate(date) = getDate(td)
    /\ getMonth(date) = getMonth(td)

isToday(date, td) ==
    /\ getDate(date) = getDate(td)
    /\ getMonth(date) = getMonth(td)
    /\ getFullYear(date) = getFullYear(td)

\* postsByDate.get(dateKey) || []
postsForDay(map, date) ==
    IF toDateString(date) \in DOMAIN map THEN map[toDateString(date)] ELSE <<>>

\* What Calendar renders: the leading blank cells and one cell per day.
CalendarGrid(cd, days, td, map) ==
    [ leadingBlanks |-> startingDayOfWeek(cd),
      cells |-> [i \in 1..Len(days) |->
                    [ date |-> days[i],
                      isToday |-> isToday(days[i], td),
                      posts |-> postsForDay(map, days[i]) ]] ]

-----------------------------------------------------------------------------
(* App: the post store.                                                    *)

PostStatus == {"Draft", "Pending Review", "Needs Revision", "Approved"}

\* The two posts App starts with, for an application started at instant n.
InitialPosts(n) ==
    << [ id |-> "1",
         date |-> setDate(n, 10),
         images |-> <<"https://picsum.photos/id/1018/1080/1080",
                      "https://picsum.photos/id/1015/1080/1080">>,
         caption |-> "Exploring the serene beauty of the mountains.",
         status |-> "Approved",
         comments |-> << [ id |-> "c1", author |-> "Reviewer",
                           text |-> "Looks great! Approved.", timestamp |-> n ] >> ],
       [ id |-> "2",
         date |-> setDate(n, 22),
         images |-> <<"https://picsum.photos/id/1025/1080/1080">>,
         caption |-> "A happy pup enjoying the day!",
         status |-> "Needs Revision",
         comments |-> << [ id |-> "c2", author |-> "Reviewer",
                           text |-> "Can we try a different caption?", timestamp |-> n ] >> ] >>

\* The useMemo body: group the list by toDateString, in list order.
RECURSIVE groupInto(_, _, _)
groupInto(ps, i, map) ==
    IF i > Len(ps) THEN map
    ELSE LET dateKey == toDateString(ps[i].date)
             withKey == IF dateKey \in DOMAIN map THEN map
                        ELSE [k \in DOMAIN map \cup {dateKey} |->
                                 IF k = dateKey THEN <<>> ELSE map[k]]
         IN  groupInto(ps, i + 1, [withKey EXCEPT ![dateKey] = Append(@, ps[i])])

\* Mutant of postsByDateOf: a memo with no dependency, never recomputed.
postsByDateNoDeps(ps) == groupInto(InitialPosts(NewDate(2024, 2, 10) + 1), 1, [k \in {} |-> <<>>])

postsByDateOf(ps) == groupInto(ps, 1, [k \in {} |-> <<>>])

\* if (postToSave.id): an id that is present and not the empty string.
HasId(postToSave) == postToSave.id # <<>> /\ postToSave.id[1] # ""

\* Mutant of MergePost: the spreads in the other order, the stored fields win.
MergePostStoredWins(p, postToSave) == [p EXCEPT !.id = postToSave.id[1]]

\* { ...p, ...postToSave, id: postToSave.id }
MergePost(p, postToSave) ==
    [ id |-> postToSave.id[1],
      date |-> postToSave.date,
      images |-> postToSave.images,
      caption |-> postToSave.caption,
      status |-> postToSave.status,
      comments |-> postToSave.comments ]

\* prevPosts.map(p => p.id === postToSave.id ? {...} : p)
updatePosts(prevPosts, postToSave) ==
    [i \in 1..Len(prevPosts) |->
        IF prevPosts[i].id = postToSave.id[1]
        THEN MergePost(prevPosts[i], postToSave)
        ELSE prevPosts[i]]

\* id: new Date().toISOString()
newPostId(t) == toISOString(t)

\* Mutant of createPost: the new post is put first.
createPostFirst(prevPosts, postToSave, t) ==
    << [ id |-> toISOString(t),
         date |-> postToSave.date,
         images |-> postToSave.images,
         caption |-> postToSave.caption,
         status |-> postToSave.status,
         comments |-> postToSave.comments ] >> \o prevPosts

\* [...prevPosts, { ...postToSave, id: new Date().toISOString() }]
createPost(prevPosts, postToSave, t) ==
    Append(prevPosts,
           [ id |-> newPostId(t),
             date |-> postToSave.date,
             images |-> postToSave.images,
             caption |-> postToSave.caption,
             status |-> postToSave.status,
             comments |-> postToSave.comments ])

\* The list handleSavePost leaves behind.
savedPosts(prevPosts, postToSave, t) ==
    IF HasId(postToSave)
    THEN updatePosts(prevPosts, postToSave)
    ELSE createPost(prevPosts, postToSave, t)

\* Mutant of filterPosts: only the first post with the id is removed.
RECURSIVE filterFirst(_, _)
filterFirst(prevPosts, postId) ==
    IF prevPosts = <<>> THEN <<>>
    ELSE IF Head(prevPosts).id # postId
         THEN <<Head(prevPosts)>> \o filterFirst(Tail(prevPosts), postId)
         ELSE Tail(prevPosts)

\* prevPosts.filter(p => p.id !== postId)
RECURSIVE filterPosts(_, _)
filterPosts(prevPosts, postId) ==
    IF prevPosts = <<>> THEN <<>>
    ELSE IF Head(prevPosts).id # postId
         THEN <<Head(prevPosts)>> \o filterPosts(Tail(prevPosts), postId)
         ELSE filterPosts(Tail(prevPosts), postId)

Op(name, outcome, input) == [name |-> name, outcome |-> outcome, input |-> input]

-----------------------------------------------------------------------------
(* Initial state: App and Calendar as first rendered at instant n.         *)

\* 2024-03-10, one tick after midnight.
AppStart == NewDate(2024, 2, 10) + 1

\* Start instants for the grid: also the last tick of 2099 (2100 is no leap
\* year) and 2000-02-29 (2000 is one).
CalStarts ==
    { AppStart, NewDate(2099, 11, 31) + (TicksPerDay - 1), NewDate(2000, 1, 29) }

InitAt(n) ==
    /\ now = n
    /\ today = n
    /\ currentDate = n
    /\ daysInMonth = buildDaysInMonth(n)
    /\ posts = InitialPosts(n)
    /\ postsByDate = postsByDateOf(InitialPosts(n))
    /\ isModalOpen = FALSE
    /\ selectedPost = <<>>
    /\ selectedDate = <<>>
    /\ images = <<>>
    /\ caption = ""
    /\ status = "Draft"
    /\ comments = <<>>
    /\ newComment = ""
    /\ isGeneratingCaption = FALSE
    /\ currentIndex = 0
    /\ requests = <<>>
    /\ uploads = <<>>
    /\ edits = 0
    /\ lastOp = Op("mount", "ok", <<>>)

\* The deployment has its API key configured.
Init == InitAt(AppStart) /\ API_KEY = TRUE

-----------------------------------------------------------------------------
(* The environment.                                                        *)

\* The clock advances by one tick.
Tick ==
    /\ \E s \in CalStarts : s <= now /\ now < s + MaxClock
    /\ now' = now + 1
    /\ lastOp' = Op("tick", "ok", <<>>)
    /\ UNCHANGED <<today, appVars, bufferVars, asyncVars, edits>>

\* Captions typed into the textarea.
Captions == {"", "A"}

\* The days of the displayed month whose cells are clicked.
ClickDays == {10}

-----------------------------------------------------------------------------
(* PostModal mounts and unmounts with isModalOpen (App.tsx 131-140); its   *)
(* state starts from the useState defaults and the effect on [post].       *)

\* The buffer after mount and the [post] effect.
BufferFrom(postOpt) ==
    /\ images' = IF postOpt # <<>> THEN postOpt[1].images ELSE <<>>
    /\ caption' = IF postOpt # <<>> THEN postOpt[1].caption ELSE ""
    /\ status' = IF postOpt # <<>> THEN postOpt[1].status ELSE "Draft"
    /\ comments' = IF postOpt # <<>> THEN postOpt[1].comments ELSE <<>>
    /\ newComment' = ""
    /\ isGeneratingCaption' = FALSE
    /\ currentIndex' = 0

\* The component is unmounted: its state is gone.
BufferGone ==
    /\ images' = <<>>
    /\ caption' = ""
    /\ status' = "Draft"
    /\ comments' = <<>>
    /\ newComment' = ""
    /\ isGeneratingCaption' = FALSE
    /\ currentIndex' = 0

\* The modal's overlay covers the calendar (part_000 line 100), so cells and
\* post cards are clicked only while the modal is closed.
handleSelectDate(date) ==
    /\ ~isModalOpen
    /\ selectedDate' = <<date>>
    /\ selectedPost' = <<>>
    /\ isModalOpen' = TRUE
    /\ BufferFrom(<<>>)
    /\ today' = now
    /\ lastOp' = Op("handleSelectDate", "ok", <<date>>)
    /\ UNCHANGED <<now, currentDate, daysInMonth, posts, postsByDate, asyncVars, edits>>

handleSelectPost(post) ==
    /\ ~isModalOpen
    /\ selectedPost' = <<post>>
    /\ selectedDate' = <<>>
    /\ isModalOpen' = TRUE
    /\ BufferFrom(<<post>>)
    /\ today' = now
    /\ lastOp' = Op("handleSelectPost", "ok", <<post.id>>)
    /\ UNCHANGED <<now, currentDate, daysInMonth, posts, postsByDate, asyncVars, edits>>

\* The calls still in flight when their component is unmounted: each is
\* marked as started by a component that is gone.
unmounted(calls) == [i \in 1..Len(calls) |-> [calls[i] EXCEPT !.mounted = FALSE]]

\* Mutant of CloseModal: the selection is left as it was.
CloseModalKeepsSelection ==
    /\ isModalOpen' = FALSE
    /\ UNCHANGED <<selectedPost, selectedDate>>
    /\ BufferGone
    /\ requests' = unmounted(requests)
    /\ uploads' = unmounted(uploads)

\* setIsModalOpen(false); setSelectedPost(null); setSelectedDate(null)
CloseModal ==
    /\ isModalOpen' = FALSE
    /\ selectedPost' = <<>>
    /\ selectedDate' = <<>>
    /\ BufferGone
    /\ requests' = unmounted(requests)
    /\ uploads' = unmounted(uploads)

\* Mutant of handleCloseModal: the buffer aliases the stored post, so what
\* was typed is in the store when the modal closes.
handleCloseModalAliased ==
    /\ isModalOpen
    /\ posts' = [i \in 1..Len(posts) |->
                    IF selectedPost # <<>> /\ posts[i].id = selectedPost[1].id
                    THEN [posts[i] EXCEPT !.images = images, !.caption = caption,
                                          !.status = status, !.comments = comments]
                    ELSE posts[i]]
    /\ postsByDate' = postsByDateOf(posts')
    /\ CloseModal
    /\ today' = now
    /\ lastOp' = Op("handleCloseModal", "ok", <<>>)
    /\ UNCHANGED <<now, currentDate, daysInMonth, API_KEY, edits>>

handleCloseModal ==
    /\ isModalOpen
    /\ CloseModal
    /\ today' = now
    /\ lastOp' = Op("handleCloseModal", "ok", <<>>)
    /\ UNCHANGED <<now, currentDate, daysInMonth, posts, postsByDate, API_KEY, edits>>

\* onChange of the caption textarea: setCaption(e.target.value).
onCaptionChange(c) ==
    /\ isModalOpen
    /\ caption # c
    /\ caption' = c
    /\ today' = now
    /\ lastOp' = Op("setCaption", "ok", <<c>>)
    /\ UNCHANGED <<now, appVars, currentIndex, images, status, comments, newComment, isGeneratingCaption,
                   asyncVars>>

\* A caption change that counts as one of the explored edits.
setCaption(c) ==
    /\ edits < MaxEdits
    /\ onCaptionChange(c)
    /\ edits' = edits + 1

\* Mutant of onStatusChange: a workflow order is enforced, nothing goes back
\* to Draft and an approved post stays approved.
onStatusChangeForward(s) ==
    /\ isModalOpen
    /\ status # s
    /\ s # "Draft"
    /\ status # "Approved"
    /\ status' = s
    /\ today' = now
    /\ lastOp' = Op("setStatus", "ok", <<s>>)
    /\ UNCHANGED <<now, appVars, currentIndex, images, caption, comments, newComment, isGeneratingCaption,
                   asyncVars>>

\* onChange of the status select: setStatus(e.target.value).
onStatusChange(s) ==
    /\ isModalOpen
    /\ status # s
    /\ status' = s
    /\ today' = now
    /\ lastOp' = Op("setStatus", "ok", <<s>>)
    /\ UNCHANGED <<now, appVars, currentIndex, images, caption, comments, newComment, isGeneratingCaption,
                   asyncVars>>

\* A status change that counts as one of the explored edits.
setStatus(s) ==
    /\ edits < MaxEdits
    /\ onStatusChange(s)
    /\ edits' = edits + 1

\* App.handleSavePost: setPosts, then handleCloseModal; the memo on [posts]
\* is recomputed at the render that follows.
handleSavePost(postToSave) ==
    /\ HasId(postToSave) \/ Len(posts) < MaxPosts
    /\ posts' = savedPosts(posts, postToSave, now)
    /\ postsByDate' = postsByDateOf(posts')
    /\ CloseModal
    /\ today' = now
    /\ lastOp' = Op("handleSavePost", "ok", <<postToSave>>)
    /\ UNCHANGED <<now, currentDate, daysInMonth, API_KEY, edits>>

\* App.handleDeletePost: setPosts(filter), then handleCloseModal.
handleDeletePost(postId) ==
    /\ posts' = filterPosts(posts, postId)
    /\ postsByDate' = postsByDateOf(posts')
    /\ CloseModal
    /\ today' = now
    /\ lastOp' = Op("handleDeletePost", "ok", <<postId>>)
    /\ UNCHANGED <<now, currentDate, daysInMonth, API_KEY, edits>>

\* post?.date || date
postDate == IF selectedPost # <<>> THEN <<selectedPost[1].date>> ELSE selectedDate

\* What handleSave hands to onSave.
bufferInput ==
    [ id |-> IF selectedPost # <<>> THEN <<selectedPost[1].id>> ELSE <<>>,
      date |-> postDate[1],
      images |-> images,
      caption |-> caption,
      status |-> status,
      comments |-> comments ]

\* PostModal.handleSave: if (!postDate) return; onSave({...})
handleSave ==
    /\ isModalOpen
    /\ IF postDate = <<>>
       THEN /\ lastOp' = Op("handleSave", "return", <<>>)
            /\ UNCHANGED <<now, today, appVars, bufferVars, asyncVars, edits>>
       ELSE handleSavePost(bufferInput)

\* PostModal.handleDelete, the confirm dialog answered with OK.
handleDelete ==
    /\ isModalOpen
    /\ selectedPost # <<>>
    /\ handleDeletePost(selectedPost[1].id)

\* The post cards the grid shows: the bucket entries of the displayed days.
RenderedPosts ==
    LET keys == {toDateString(daysInMonth[i]) : i \in 1..Len(daysInMonth)}
                    \cap DOMAIN postsByDate
    IN  UNION { {postsByDate[k][j] : j \in 1..Len(postsByDate[k])} : k \in keys }

\* The day cells that are clicked.
ClickedCells == {daysInMonth[i] : i \in ClickDays \cap (1..Len(daysInMonth))}

Next ==
    \/ Tick
    \/ ~isModalOpen /\ \E date \in ClickedCells : handleSelectDate(date)
    \/ ~isModalOpen /\ \E post \in RenderedPosts : handleSelectPost(post)
    \/ handleCloseModal
    \/ \E c \in Captions : setCaption(c)
    \/ \E s \in PostStatus : setStatus(s)
    \/ handleSave
    \/ handleDelete

Spec == Init /\ [][Next]_vars

-----------------------------------------------------------------------------
(* Month navigation (App.tsx 84-94), explored from several start instants. *)

MonthIndex(t) == getFullYear(t) * 12 + getMonth(t)

\* The start instant of this run: the one whose clock window holds `now`.
StartOfRun == CHOOSE s \in CalStarts : s <= now /\ now <= s + MaxClock

\* Mutant of previousMonth: the month index wraps but the year stays.
previousMonthSameYear(cd) == NewDate(getFullYear(cd), (getMonth(cd) - 1) % 12, 1)

\* new Date(currentDate.getFullYear(), currentDate.getMonth() - 1, 1)
previousMonth(cd) == NewDate(getFullYear(cd), getMonth(cd) - 1, 1)

\* new Date(currentDate.getFullYear(), currentDate.getMonth() + 1, 1)
nextMonth(cd) == NewDate(getFullYear(cd), getMonth(cd) + 1, 1)

goToPreviousMonth ==
    /\ MonthIndex(currentDate) > MonthIndex(StartOfRun) - MaxNav
    /\ currentDate' = previousMonth(currentDate)
    /\ daysInMonth' = buildDaysInMonth(currentDate')
    /\ today' = now
    /\ lastOp' = Op("goToPreviousMonth", "ok", <<>>)
    /\ UNCHANGED <<now, posts, postsByDate, isModalOpen, selectedPost, selectedDate,
                   bufferVars, asyncVars, edits>>

goToNextMonth ==
    /\ MonthIndex(currentDate) < MonthIndex(StartOfRun) + MaxNav
    /\ currentDate' = nextMonth(currentDate)
    /\ daysInMonth' = buildDaysInMonth(currentDate')
    /\ today' = now
    /\ lastOp' = Op("goToNextMonth", "ok", <<>>)
    /\ UNCHANGED <<now, posts, postsByDate, isModalOpen, selectedPost, selectedDate,
                   bufferVars, asyncVars, edits>>

goToToday ==
    /\ currentDate' = now
    /\ daysInMonth' = buildDaysInMonth(currentDate')
    /\ today' = now
    /\ lastOp' = Op("goToToday", "ok", <<>>)
    /\ UNCHANGED <<now, posts, postsByDate, isModalOpen, selectedPost, selectedDate,
                   bufferVars, asyncVars, edits>>

InitCal == API_KEY = TRUE /\ \E n \in CalStarts : InitAt(n)

NextCal ==
    \/ Tick
    \/ goToPreviousMonth
    \/ goToNextMonth
    \/ goToToday

\* The calendar under navigation, with the store left as constructed.
SpecCal == InitCal /\ [][NextCal]_vars

-----------------------------------------------------------------------------
(* The handlers called as their signatures allow: App's onSave and         *)
(* onDelete with any argument, PostModal rendered with any props.          *)

\* Ids a caller may pass: none, the empty string, stored ids, a stale id.
InputIds ==
    {<<>>, <<"">>, <<"stale">>} \cup {<<posts[i].id>> : i \in 1..Len(posts)}

\* Omit<Post, 'id'> & { id?: string }
PostInputs ==
    [ id : InputIds,
      date : {NewDate(2024, 2, 10)},
      images : {<<>>},
      caption : Captions,
      status : {"Draft"},
      comments : {<<>>} ]

\* PostModal rendered with the props (post, date): post is null, a stored
\* post, or a post that was deleted since; date is null or a day.
renderModal(postOpt, dateOpt) ==
    /\ ~isModalOpen
    /\ isModalOpen' = TRUE
    /\ selectedPost' = postOpt
    /\ selectedDate' = dateOpt
    /\ BufferFrom(postOpt)
    /\ today' = now
    /\ lastOp' = Op("renderModal", "ok", <<>>)
    /\ UNCHANGED <<now, currentDate, daysInMonth, posts, postsByDate, asyncVars, edits>>

PostProps ==
    {<<>>} \cup {<<posts[i]>> : i \in 1..Len(posts)}
           \cup {<<InitialPosts(AppStart)[1]>>}

DateProps == {<<>>, <<NewDate(2024, 2, 10)>>}

NextHandlers ==
    \/ Tick
    \/ \E input \in PostInputs : handleSavePost(input)
    \/ \E id \in InputIds : id # <<>> /\ handleDeletePost(id[1])
    \/ \E postOpt \in PostProps, dateOpt \in DateProps : renderModal(postOpt, dateOpt)
    \/ handleSave
    \/ handleDelete
    \/ handleCloseModal

SpecHandlers == Init /\ [][NextHandlers]_vars

-----------------------------------------------------------------------------
(* PostModal's comment box, image upload and caption suggestion            *)
(* (part_000 49-92), and the suggestion service (geminiService.ts).        *)

WhiteSpace == {" ", "\t", "\n"}

RECURSIVE trimStart(_)
trimStart(s) ==
    IF s # "" /\ Head(s) \in WhiteSpace THEN trimStart(Tail(s)) ELSE s

RECURSIVE trimEnd(_)
trimEnd(s) ==
    IF s # "" /\ SubSeq(s, Len(s), Len(s)) \in WhiteSpace
    THEN trimEnd(SubSeq(s, 1, Len(s) - 1))
    ELSE s

\* Mutant of trim: only the empty string counts as blank.
trimNothing(s) == s

\* String.prototype.trim
trim(s) == trimEnd(trimStart(s))

\* Texts typed into the comment box.
NewComments == {"", " \n", " ok "}

Authors == {"Designer", "Reviewer"}

\* onChange of the comment textarea; typing is explored while an edit is left.
setNewComment(text) ==
    /\ isModalOpen
    /\ edits < MaxEdits
    /\ newComment # text
    /\ newComment' = text
    /\ today' = now
    /\ lastOp' = Op("setNewComment", "ok", <<text>>)
    /\ UNCHANGED <<now, appVars, currentIndex, images, caption, status, comments, isGeneratingCaption,
                   asyncVars, edits>>

\* { id: new Date().toISOString(), author, text: newComment, timestamp: new Date() }
newCommentOf(author, text, n) ==
    [ id |-> toISOString(n), author |-> author, text |-> text, timestamp |-> n ]

handleAddComment(author) ==
    /\ isModalOpen
    /\ IF trim(newComment) = ""
       THEN /\ lastOp' = Op("handleAddComment", "return", <<author>>)
            /\ UNCHANGED <<now, today, appVars, bufferVars, asyncVars, edits>>
       ELSE /\ edits < MaxEdits
            /\ comments' = Append(comments, newCommentOf(author, newComment, now))
            /\ newComment' = ""
            /\ edits' = edits + 1
            /\ today' = now
            /\ lastOp' = Op("handleAddComment", "ok", <<author>>)
            /\ UNCHANGED <<now, appVars, currentIndex, images, caption, status, isGeneratingCaption,
                           asyncVars>>

\* The file lists picked in the file input.
FileLists == {<<>>, <<"a", "b">>}

\* What reader.result holds after readAsDataURL succeeded.
readAsDataURL(file) == "data:image/png;base64," \o file

\* newImages = [], filesProcessed = 0, and one FileReader started per file;
\* the readers finish later, in any order.
startReaders(files) ==
    /\ uploads' = Append(uploads, [ files |-> files,
                                    loading |-> 1..Len(files),
                                    newImages |-> <<>>,
                                    filesProcessed |-> 0,
                                    mounted |-> TRUE ])
    /\ lastOp' = Op("handleImageUpload", "reading", <<files>>)
    /\ UNCHANGED <<now, today, appVars, bufferVars, API_KEY, requests>>

\* Array.from(e.target.files); with no file chosen nothing is started.
handleImageUpload(files) ==
    /\ isModalOpen
    /\ IF files = <<>>
       THEN /\ lastOp' = Op("handleImageUpload", "none", <<files>>)
            /\ UNCHANGED <<now, today, appVars, bufferVars, asyncVars, edits>>
       ELSE /\ edits < MaxEdits
            /\ startReaders(files)
            /\ edits' = edits + 1

Without(seq, k) == [i \in 1..(Len(seq) - 1) |-> IF i < k THEN seq[i] ELSE seq[i + 1]]

\* if (typeof reader.result === 'string') newImages.push(reader.result)
pushResult(up, i, result) ==
    IF result # <<>> THEN Append(up.newImages, result[1]) ELSE up.newImages

\* Mutant of settersLive: the modal is hidden, not unmounted, and its setters
\* stay in effect.
settersKeptLive(call) == TRUE

\* React drops a state update of a component that is no longer mounted, and
\* App mounts a new PostModal at every opening (App.tsx 131-140).
settersLive(call) == call.mounted

\* reader.onloadend of file i of batch u; result is <<>> when the read failed.
onloadend(u, i, result) ==
    /\ u \in 1..Len(uploads)
    /\ i \in uploads[u].loading
    /\ LET up == uploads[u]
           newImages == pushResult(up, i, result)
           filesProcessed == up.filesProcessed + 1
       IN  IF filesProcessed = Len(up.files)
           THEN /\ uploads' = Without(uploads, u)
                /\ IF settersLive(up)
                   THEN images' = images \o newImages /\ today' = now
                   ELSE UNCHANGED <<images, today>>
                /\ lastOp' = Op("onloadend", "done", <<up, newImages>>)
           ELSE /\ uploads' = [uploads EXCEPT ![u] =
                                  [ files |-> up.files,
                                    loading |-> up.loading \ {i},
                                    newImages |-> newImages,
                                    filesProcessed |-> filesProcessed,
                                    mounted |-> up.mounted ]]
                /\ lastOp' = Op("onloadend", "pending", <<up, newImages>>)
                /\ UNCHANGED <<images, today>>
    /\ UNCHANGED <<now, appVars, currentIndex, caption, status, comments, newComment, isGeneratingCaption,
                   API_KEY, requests, edits>>

\* What the read of file f yields: the data URL, or null on a read error;
\* the reads that fail are those of file "b".
ReadResults(f) ==
    IF f = "b" THEN {<<>>, <<readAsDataURL(f)>>} ELSE {<<readAsDataURL(f)>>}

\* What ai.models.generateContent does: it answers with a text or throws.
ServiceOutcomes == {"text", "network error", "quota error"}

\* response.text of an answer.
ResponseText == "Sunny days! #happy"

NO_KEY_MESSAGE == "API Key not configured. Please set the API_KEY environment variable."

FALLBACK_MESSAGE == "Sorry, I couldn't generate a caption right now. Please try again later."

Fulfilled(value) == [settled |-> "fulfilled", value |-> value]

Rejected(error) == [settled |-> "rejected", value |-> error]

\* Mutant of suggestCaption: no try/catch around the service call.
suggestCaptionNoCatch(key, imgs, outcome) ==
    IF ~key THEN Fulfilled(NO_KEY_MESSAGE)
    ELSE IF outcome = "text" THEN Fulfilled(ResponseText)
    ELSE Rejected(outcome)

\* The promise suggestCaption(images) returns, once settled; all that follows
\* the key check, the service call included, runs inside the try block.
suggestCaption(key, imgs, outcome) ==
    IF ~key THEN Fulfilled(NO_KEY_MESSAGE)
    ELSE IF outcome = "text" THEN Fulfilled(ResponseText)
    ELSE Fulfilled(FALLBACK_MESSAGE)

\* Mutant of handleGenerateCaption: the images.length check is missing.
handleGenerateCaptionUnchecked ==
    /\ isModalOpen
    /\ edits < MaxEdits
    /\ isGeneratingCaption' = TRUE
    /\ requests' = Append(requests, [images |-> images, mounted |-> TRUE])
    /\ edits' = edits + 1
    /\ today' = now
    /\ lastOp' = Op("handleGenerateCaption", "await", <<images>>)
    /\ UNCHANGED <<now, appVars, currentIndex, images, caption, status, comments, newComment,
                   API_KEY, uploads>>

\* setIsGeneratingCaption(true) and the call of suggestCaption(images), up
\* to the await.
awaitSuggestion ==
    /\ isGeneratingCaption' = TRUE
    /\ requests' = Append(requests, [images |-> images, mounted |-> TRUE])
    /\ today' = now
    /\ lastOp' = Op("handleGenerateCaption", "await", <<images>>)
    /\ UNCHANGED <<now, appVars, currentIndex, images, caption, status, comments, newComment,
                   API_KEY, uploads>>

\* PostModal.handleGenerateCaption up to the await; a request counts as one
\* of the explored edits.
handleGenerateCaption ==
    /\ isModalOpen
    /\ IF Len(images) = 0
       THEN /\ lastOp' = Op("handleGenerateCaption", "alert", <<images>>)
            /\ UNCHANGED <<now, today, appVars, bufferVars, asyncVars, edits>>
       ELSE /\ edits < MaxEdits
            /\ awaitSuggestion
            /\ edits' = edits + 1

\* Mutant of suggestDisabled: the button ignores the generating flag.
suggestDisabledNoFlag == Len(images) = 0

\* disabled={isGeneratingCaption || images.length === 0}
suggestDisabled == isGeneratingCaption \/ Len(images) = 0

\* A click on the Suggest Caption button.
clickSuggest == ~suggestDisabled /\ handleGenerateCaption

\* Mutant of resumeGenerateCaption: the flag is reset only after an answer.
resumeGenerateCaptionOnAnswer(r, outcome) ==
    /\ r \in 1..Len(requests)
    /\ LET call == requests[r]
           promise == suggestCaption(API_KEY, call.images, outcome)
       IN  /\ requests' = Without(requests, r)
           /\ IF promise.settled = "fulfilled" /\ settersLive(call)
              THEN /\ caption' = promise.value
                   /\ isGeneratingCaption' = (outcome # "text")
                   /\ today' = now
              ELSE UNCHANGED <<caption, isGeneratingCaption, today>>
           /\ lastOp' = Op("suggestCaption", promise.settled,
                           <<call, promise.value, outcome, caption>>)
    /\ UNCHANGED <<now, appVars, currentIndex, images, status, comments, newComment, API_KEY, uploads,
                   edits>>

\* Mutant of resumeGenerateCaption: a caption typed just before the result
\* arrives is kept.
resumeGenerateCaptionKeepsTyped(r, outcome) ==
    /\ r \in 1..Len(requests)
    /\ LET call == requests[r]
           promise == suggestCaption(API_KEY, call.images, outcome)
       IN  /\ requests' = Without(requests, r)
           /\ IF promise.settled = "fulfilled" /\ settersLive(call)
              THEN /\ caption' = IF lastOp.name = "setCaption" THEN caption ELSE promise.value
                   /\ isGeneratingCaption' = FALSE
                   /\ today' = now
              ELSE UNCHANGED <<caption, isGeneratingCaption, today>>
           /\ lastOp' = Op("suggestCaption", promise.settled,
                           <<call, promise.value, outcome, caption>>)
    /\ UNCHANGED <<now, appVars, currentIndex, images, status, comments, newComment, API_KEY, uploads,
                   edits>>

\* The promise of request r settles and handleGenerateCaption resumes after
\* its await: setCaption(generatedCaption); setIsGeneratingCaption(false).
\* A rejection would leave the handler at the await for good.
resumeGenerateCaption(r, outcome) ==
    /\ r \in 1..Len(requests)
    /\ LET call == requests[r]
           promise == suggestCaption(API_KEY, call.images, outcome)
       IN  /\ requests' = Without(requests, r)
           /\ IF promise.settled = "fulfilled" /\ settersLive(call)
              THEN /\ caption' = promise.value
                   /\ isGeneratingCaption' = FALSE
                   /\ today' = now
              ELSE UNCHANGED <<caption, isGeneratingCaption, today>>
           /\ lastOp' = Op("suggestCaption", promise.settled,
                           <<call, promise.value, outcome, caption>>)
    /\ UNCHANGED <<now, appVars, currentIndex, images, status, comments, newComment, API_KEY, uploads,
                   edits>>

\* The controls of the modal, with the clock standing still; one caption and
\* one status are typed, the other values are explored in Spec.
NextModal ==
    \/ ~isModalOpen /\ \E date \in ClickedCells : handleSelectDate(date)
    \/ ~isModalOpen /\ \E post \in RenderedPosts : handleSelectPost(post)
    \/ handleCloseModal
    \/ setCaption("A")
    \/ setStatus("Pending Review")
    \/ handleSave
    \/ handleDelete
    \/ \E text \in NewComments : setNewComment(text)
    \/ \E author \in Authors : handleAddComment(author)
    \/ \E files \in FileLists : handleImageUpload(files)
    \/ \E u \in 1..Len(uploads) : \E i \in uploads[u].loading :
          \E result \in ReadResults(uploads[u].files[i]) : onloadend(u, i, result)
    \/ clickSuggest
    \/ \E r \in 1..Len(requests), outcome \in ServiceOutcomes : resumeGenerateCaption(r, outcome)

\* The application with every control of the modal.
SpecModal == Init /\ [][NextModal]_vars

\* The build may or may not carry an API key.
InitService == InitAt(AppStart) /\ API_KEY \in BOOLEAN

NextService ==
    \/ \E postOpt \in PostProps, dateOpt \in DateProps : renderModal(postOpt, dateOpt)
    \/ handleCloseModal
    \/ handleGenerateCaption
    \/ \E r \in 1..Len(requests), outcome \in ServiceOutcomes : resumeGenerateCaption(r, outcome)

\* The suggestion handler called whatever the state of its button, against
\* a service that answers or fails, with and without an API key.
SpecService == InitService /\ [][NextService]_vars

NextStatus ==
    \/ ~isModalOpen /\ \E date \in ClickedCells : handleSelectDate(date)
    \/ ~isModalOpen /\ \E post \in RenderedPosts : handleSelectPost(post)
    \/ handleCloseModal
    \/ \E s \in PostStatus : onStatusChange(s) /\ UNCHANGED edits
    \/ handleSave

\* The status select used any number of times, with the clock standing still.
SpecStatus == Init /\ [][NextStatus]_vars

NextGrid ==
    \/ MonthIndex(currentDate) > MonthIndex(StartOfRun) - GridNav /\ goToPreviousMonth
    \/ MonthIndex(currentDate) < MonthIndex(StartOfRun) + GridNav /\ goToNextMonth
    \/ ~isModalOpen /\ \E date \in ClickedCells : handleSelectDate(date)
    \/ ~isModalOpen /\ \E post \in RenderedPosts : handleSelectPost(post)
    \/ handleCloseModal
    \/ handleSave

\* Posts created in the months around the start, with the clock standing
\* still.
SpecGrid == Init /\ [][NextGrid]_vars

\* A click on the Suggest Caption button, not counted as an edit.
suggestClicked ==
    /\ isModalOpen
    /\ ~suggestDisabled
    /\ Len(requests) < MaxRequests
    /\ awaitSuggestion
    /\ UNCHANGED edits

\* The service answers one of the requests in flight.
serviceReturns == \E r \in 1..Len(requests), outcome \in ServiceOutcomes : resumeGenerateCaption(r, outcome)

NextSuggest ==
    \/ ~isModalOpen /\ \E date \in ClickedCells : handleSelectDate(date)
    \/ ~isModalOpen /\ \E post \in RenderedPosts : handleSelectPost(post)
    \/ handleCloseModal
    \/ \E c \in Captions : onCaptionChange(c) /\ UNCHANGED edits
    \/ suggestClicked
    \/ serviceReturns

\* Caption suggestions with the caption typed over while they are in flight;
\* the store and the clock stand still.
SpecSuggest == InitService /\ [][NextSuggest]_vars

\* The same, with a service that answers every call in the end.
SpecSuggestFair == SpecSuggest /\ WF_vars(serviceReturns)

-----------------------------------------------------------------------------
(* ImageCarousel, rendered by PostModal on the buffer's images.            *)

\* Mutant of goToNext: the step past the last image does not wrap.
goToNextNoWrap ==
    /\ isModalOpen
    /\ Len(images) > 1
    /\ currentIndex' = currentIndex + 1
    /\ lastOp' = Op("goToNext", "ok", <<currentIndex>>)
    /\ UNCHANGED <<now, today, appVars, images, caption, status, comments, newComment,
                   isGeneratingCaption, asyncVars, edits>>

\* The buttons are rendered when images.length > 1.
goToNext ==
    /\ isModalOpen
    /\ Len(images) > 1
    /\ LET isLastImage == currentIndex = Len(images) - 1
           newIndex == IF isLastImage THEN 0 ELSE currentIndex + 1
       IN  currentIndex' = newIndex
    /\ lastOp' = Op("goToNext", "ok", <<currentIndex>>)
    /\ UNCHANGED <<now, today, appVars, images, caption, status, comments, newComment,
                   isGeneratingCaption, asyncVars, edits>>

goToPrevious ==
    /\ isModalOpen
    /\ Len(images) > 1
    /\ LET isFirstImage == currentIndex = 0
           newIndex == IF isFirstImage THEN Len(images) - 1 ELSE currentIndex - 1
       IN  currentIndex' = newIndex
    /\ lastOp' = Op("goToPrevious", "ok", <<currentIndex>>)
    /\ UNCHANGED <<now, today, appVars, images, caption, status, comments, newComment,
                   isGeneratingCaption, asyncVars, edits>>

\* Files chosen in the file input, not counted as an edit.
filesChosen(files) ==
    /\ isModalOpen
    /\ files # <<>>
    /\ Len(uploads) < MaxUploads
    /\ Len(images) + Len(files) <= MaxImages
    /\ startReaders(files)
    /\ UNCHANGED edits

NextCarousel ==
    \/ ~isModalOpen /\ \E date \in ClickedCells : handleSelectDate(date)
    \/ ~isModalOpen /\ \E post \in RenderedPosts : handleSelectPost(post)
    \/ handleCloseModal
    \/ \E files \in FileLists : filesChosen(files)
    \/ \E u \in 1..Len(uploads) : \E i \in uploads[u].loading :
          \E result \in ReadResults(uploads[u].files[i]) : onloadend(u, i, result)
    \/ goToNext
    \/ goToPrevious

\* The carousel stepped while images are uploaded; the store and the clock
\* stand still.
SpecCarousel == Init /\ [][NextCarousel]_vars

-----------------------------------------------------------------------------
(* Posts created on two days of the displayed month.                       *)

\* The days whose cells are clicked here.
TwoDays == {10, 11}

NextDays ==
    \/ ~isModalOpen /\ \E i \in TwoDays \cap (1..Len(daysInMonth)) :
                            handleSelectDate(daysInMonth[i])
    \/ ~isModalOpen /\ \E post \in RenderedPosts : handleSelectPost(post)
    \/ handleCloseModal
    \/ handleSave
    \/ handleDelete

\* Posts created, saved again and deleted, with the clock standing still.
SpecDays == Init /\ [][NextDays]_vars

-----------------------------------------------------------------------------
(* Reference calendar arithmetic for the properties below, derived         *)
(* independently of the Date model above.                                  *)

\* Days of month m0 (0 = January) of year y, from the calendar rule.
RefDaysInMonth(y, m0) ==
    IF m0 \in {0, 2, 4, 6, 7, 9, 11} THEN 31
    ELSE IF m0 \in {3, 5, 8, 10} THEN 30
    ELSE IF (y % 4 = 0 /\ y % 100 # 0) \/ y % 400 = 0 THEN 29 ELSE 28

\* Weekday (0 = Sunday) of y-m-d, m in 1..12, by Sakamoto's congruence.
RefWeekday(y, m, d) ==
    LET t == <<0, 3, 2, 5, 0, 3, 5, 1, 4, 6, 2, 4>>
        yy == IF m < 3 THEN y - 1 ELSE y
    IN  (yy + (yy \div 4) - (yy \div 100) + (yy \div 400) + t[m] + d) % 7

\* Days since 1970-01-01 of y-m-d, m in 1..12, by the era/day-of-era count.
RefDayNumber(y, m, d) ==
    LET yy == IF m <= 2 THEN y - 1 ELSE y
        era == yy \div 400
        yoe == yy - era * 400
        mp == IF m > 2 THEN m - 3 ELSE m + 9
        doy == ((153 * mp + 2) \div 5) + d - 1
        doe == yoe * 365 + (yoe \div 4) - (yoe \div 100) + doy
    IN  era * 146097 + doe - 719468

\* The argument of the last handleSavePost / handleDeletePost call.
LastInput == lastOp.input[1]

-----------------------------------------------------------------------------
(* Properties.                                                             *)

\* C1: in every reachable state all posts in the store have pairwise
\* distinct ids, whatever the clock read when they were created.
C1_UniqueIds ==
    \A i, j \in 1..Len(posts) : i # j => posts[i].id # posts[j].id

\* C2: a save with no id appends exactly one post at the end of the list:
\* the length grows by one and the posts that were there keep their place.
C2_CreateAppends ==
    [][ (lastOp'.name = "handleSavePost" /\ ~HasId(lastOp'.input[1]))
          => /\ Len(posts') = Len(posts) + 1
             /\ SubSeq(posts', 1, Len(posts)) = posts ]_vars

C2_Witness ==
    /\ lastOp.name = "handleSavePost"
    /\ ~HasId(LastInput)
    /\ Len(posts) = 3
    /\ posts[1].id = "1" /\ posts[2].id = "2"

\* C3: a save whose id matches an existing post leaves the list length
\* unchanged, keeps that post's id and position, and leaves every other post
\* in the list unchanged.
C3_UpdateFrame ==
    [][ ( /\ lastOp'.name = "handleSavePost"
          /\ HasId(lastOp'.input[1])
          /\ \E i \in 1..Len(posts) : posts[i].id = lastOp'.input[1].id[1] )
          => /\ Len(posts') = Len(posts)
             /\ \E k \in 1..Len(posts) :
                    /\ posts[k].id = lastOp'.input[1].id[1]
                    /\ posts'[k].id = posts[k].id
                    /\ \A j \in 1..Len(posts) : j # k => posts'[j] = posts[j] ]_vars

\* C4: right after a save the list holds a post whose date, images, caption,
\* status and comments are the values handed to save: the post's own date or
\* the selected date, and the buffer as it was when Save was pressed.
C4_RoundTrip ==
    [][ lastOp'.name = "handleSavePost"
          => \E i \in 1..Len(posts') :
                /\ posts'[i].date = postDate[1]
                /\ posts'[i].images = images
                /\ posts'[i].caption = caption
                /\ posts'[i].status = status
                /\ posts'[i].comments = comments ]_vars

C4_Witness ==
    /\ lastOp.name = "handleSavePost"
    /\ HasId(LastInput)
    /\ LastInput.caption = "A"
    /\ \E i \in 1..Len(posts) : posts[i].id = LastInput.id[1] /\ posts[i].caption = "A"

\* C5: after delete(id) no post has that id, the posts with another id are
\* all still there, unchanged and in the same order, and deleting an id that
\* is not in the store leaves the list as it was.
C5_Delete ==
    [][ lastOp'.name = "handleDeletePost"
          => /\ \A i \in 1..Len(posts') : posts'[i].id # lastOp'.input[1]
             /\ posts' = SelectSeq(posts, LAMBDA p : p.id # lastOp'.input[1])
             /\ (\A i \in 1..Len(posts) : posts[i].id # lastOp'.input[1]) => posts' = posts ]_vars

C5_Witness ==
    /\ lastOp.name = "handleDeletePost"
    /\ LastInput = "stale"
    /\ Len(posts) = 3

\* C6: a save carrying an id that matches no post fails with NotFoundError
\* and leaves the store unchanged.
C6_NotFound ==
    [][ ( /\ lastOp'.name = "handleSavePost"
          /\ HasId(lastOp'.input[1])
          /\ \A i \in 1..Len(posts) : posts[i].id # lastOp'.input[1].id[1] )
          => /\ lastOp'.outcome = "NotFoundError"
             /\ posts' = posts ]_vars

\* C7: a save attempted with neither a post nor a selected day fails with a
\* ValidationError signalled to the caller instead of returning silently.
C7_ValidationError ==
    (lastOp.name = "handleSave" /\ selectedPost = <<>> /\ selectedDate = <<>>)
        => lastOp.outcome = "ValidationError"

\* All bucket entries, as a set of <<key, position>> pairs.
BucketSlots ==
    { kj \in (DOMAIN postsByDate) \X (1..MaxPosts + 1) : kj[2] <= Len(postsByDate[kj[1]]) }

\* C8: the day buckets partition the current list: each post of the store is
\* in exactly one bucket, the one of its calendar day whatever its time of
\* day, and every bucket entry is a post of the current store.
C8_Partition ==
    /\ \A i \in 1..Len(posts) :
          Cardinality({kj \in BucketSlots : postsByDate[kj[1]][kj[2]] = posts[i]})
              = Cardinality({j \in 1..Len(posts) : posts[j] = posts[i]})
    /\ \A kj \in BucketSlots : \E i \in 1..Len(posts) : posts[i] = postsByDate[kj[1]][kj[2]]
    /\ \A k \in DOMAIN postsByDate : postsByDate[k] # <<>>
    /\ \A a, b \in BucketSlots :
          (a[1] = b[1]) <=> (Day(postsByDate[a[1]][a[2]].date) = Day(postsByDate[b[1]][b[2]].date))

C8_Witness ==
    /\ lastOp.name = "handleSavePost"
    /\ \E i, j \in 1..Len(posts) :
          /\ Day(posts[i].date) = Day(posts[j].date)
          /\ posts[i].date # posts[j].date
    /\ \A i \in 1..Len(posts) : posts[i].id # "2"

\* C9: the grid has one cell per calendar day of the displayed month (28, 29,
\* 30 or 31), cell i is day i, and the leading blanks are the weekday of day
\* 1 with Sunday = 0; March 2024 has 31 cells after 5 blanks.
C9_Grid ==
    LET y == getFullYear(currentDate)
        m == getMonth(currentDate)
    IN  /\ RefDayNumber(y, m + 1, 1) <= Day(currentDate)
        /\ Day(currentDate) < RefDayNumber(y, m + 1, 1) + RefDaysInMonth(y, m)
        /\ Len(daysInMonth) = RefDaysInMonth(y, m)
        /\ \A i \in 1..Len(daysInMonth) :
              /\ Day(daysInMonth[i]) = RefDayNumber(y, m + 1, i)
              /\ getDate(daysInMonth[i]) = i
        /\ startingDayOfWeek(currentDate) = RefWeekday(y, m + 1, 1)
        /\ startingDayOfWeek(currentDate) \in 0..6
        /\ (y = 2024 /\ m = 2) => (Len(daysInMonth) = 31 /\ startingDayOfWeek(currentDate) = 5)

C9_Witness ==
    /\ getFullYear(currentDate) = 2024
    /\ getMonth(currentDate) = 1
    /\ Len(daysInMonth) = 29
    /\ lastOp.name = "goToPreviousMonth"

\* The cells of the rendered grid that are flagged isToday.
TodayCells == {i \in 1..Len(daysInMonth) : isToday(daysInMonth[i], today)}

\* C10: a cell is flagged isToday exactly when it is today's calendar day:
\* at most one cell is flagged, exactly one when the displayed month is the
\* current month, none when another month or year is displayed.
C10_IsToday ==
    /\ \A i \in 1..Len(daysInMonth) : (i \in TodayCells) <=> (Day(daysInMonth[i]) = Day(today))
    /\ Cardinality(TodayCells) <= 1
    /\ (MonthIndex(currentDate) = MonthIndex(today)) => Cardinality(TodayCells) = 1
    /\ (MonthIndex(currentDate) # MonthIndex(today)) => TodayCells = {}

C10_Witness ==
    /\ MonthIndex(currentDate) = MonthIndex(today)
    /\ currentDate # today
    /\ TimeWithinDay(today) # 0
    /\ Cardinality(TodayCells) = 1

\* The month and year the header shows, read off the day number by the
\* reference arithmetic: the <<year, month>> whose days hold that day.
RefShown(t) ==
    CHOOSE ym \in (1990..2110) \X (0..11) :
        /\ RefDayNumber(ym[1], ym[2] + 1, 1) <= Day(t)
        /\ Day(t) < RefDayNumber(ym[1], ym[2] + 1, 1) + RefDaysInMonth(ym[1], ym[2])

\* C11: previous month from January of Y shows December of Y-1, next month
\* from December of Y shows January of Y+1; the month index stays in 0..11,
\* and previous then next (or next then previous) shows the same month and
\* year again.
C11_Rollover ==
    [][ LET y == getFullYear(currentDate)
            m == getMonth(currentDate)
            y2 == getFullYear(currentDate')
            m2 == getMonth(currentDate')
        IN  /\ m2 \in 0..11
            /\ <<y2, m2>> = RefShown(currentDate')
            /\ lastOp'.name = "goToPreviousMonth"
                  => /\ <<y2, m2>> = (IF m = 0 THEN <<y - 1, 11>> ELSE <<y, m - 1>>)
                     /\ <<getFullYear(nextMonth(currentDate')), getMonth(nextMonth(currentDate'))>>
                            = <<y, m>>
            /\ lastOp'.name = "goToNextMonth"
                  => /\ <<y2, m2>> = (IF m = 11 THEN <<y + 1, 0>> ELSE <<y, m + 1>>)
                     /\ <<getFullYear(previousMonth(currentDate')),
                          getMonth(previousMonth(currentDate'))>> = <<y, m>>
            /\ lastOp'.name = "goToToday" => <<y2, m2>> = RefShown(now) ]_vars

C11_Witness ==
    /\ lastOp.name = "goToPreviousMonth"
    /\ getFullYear(currentDate) = 2023
    /\ getMonth(currentDate) = 11

\* A text with nothing but white space in it, read character by character.
IsBlank(s) == \A i \in 1..Len(s) : SubSeq(s, i, i) \in {" ", "\t", "\n"}

\* C12: adding a comment whose text is empty or only white space changes
\* neither the buffer's comments nor its images, caption and status; a text
\* that is not blank is appended as the last comment of the buffer.
C12_AddComment ==
    [][ lastOp'.name = "handleAddComment"
          => IF IsBlank(newComment)
             THEN /\ comments' = comments
                  /\ <<images', caption', status'>> = <<images, caption, status>>
                  /\ posts' = posts
             ELSE /\ Len(comments') = Len(comments) + 1
                  /\ SubSeq(comments', 1, Len(comments)) = comments
                  /\ comments'[Len(comments')].text = newComment
                  /\ comments'[Len(comments')].author = lastOp'.input[1]
                  /\ <<images', caption', status'>> = <<images, caption, status>> ]_vars

C12_Witness ==
    /\ lastOp.name = "handleAddComment"
    /\ isModalOpen
    /\ newComment = " \n"
    /\ selectedPost # <<>>
    /\ comments = selectedPost[1].comments

\* C13: the edit buffer is apart from the store.  Typing a caption, choosing
\* a status, uploading images, adding comments, a suggested caption and
\* closing the modal leave the post list as it is: the list changes only in
\* a step of Save or Delete.  While the modal is open on a post, that post
\* is stored exactly as it was when the modal was opened.
C13_Isolation ==
    /\ [](isModalOpen /\ selectedPost # <<>>
             => \E i \in 1..Len(posts) : posts[i] = selectedPost[1])
    /\ [][ lastOp'.name \notin {"handleSavePost", "handleDeletePost"}
             => posts' = posts /\ postsByDate' = postsByDate ]_vars

\* The modal was closed with Cancel after an edit, and the store is as constructed.
C13_Witness ==
    /\ lastOp.name = "handleCloseModal"
    /\ edits = MaxEdits
    /\ posts = InitialPosts(AppStart)

IsPrefix(a, b) == Len(a) <= Len(b) /\ SubSeq(b, 1, Len(a)) = a

\* C14: comment logs only grow.  In a step of Save, every post stored before
\* the step is stored after it at the same place with a comment list that
\* extends the old one; no other step but Delete touches the list.
C14_AppendOnly ==
    [][ /\ lastOp'.name = "handleSavePost"
            => /\ Len(posts') >= Len(posts)
               /\ \A i \in 1..Len(posts) :
                     IsPrefix(posts[i].comments, posts'[i].comments)
        /\ lastOp'.name \notin {"handleSavePost", "handleDeletePost"}
            => posts' = posts ]_vars

\* C15: the result of a suggestion request whose modal was closed (with
\* Cancel, Save or Delete) before it arrived is dropped: its arrival changes
\* no stored post and nothing in the edit buffer, whether the modal is
\* closed or was opened again since.
C15_Discarded ==
    [][ (lastOp'.name = "suggestCaption" /\ ~lastOp'.input[1].mounted)
          => /\ posts' = posts
             /\ postsByDate' = postsByDate
             /\ caption' = caption
             /\ bufferVars' = bufferVars ]_vars

\* The result of an abandoned request arrived while the modal was open again.
C15_Witness ==
    /\ lastOp.name = "suggestCaption"
    /\ ~lastOp.input[1].mounted
    /\ isModalOpen
    /\ caption # lastOp.input[2]

\* The data URLs of the files of a selection that were read, in the order
\* the files were selected.
InSelectionOrder(files, read) ==
    LET WasRead(url) == \E k \in 1..Len(read) : read[k] = url
    IN  SelectSeq([k \in 1..Len(files) |-> readAsDataURL(files[k])], WasRead)

\* C16: when the last read of a selection of files finishes, the images
\* appended to the buffer are in the order the files were selected,
\* whatever the order in which the reads finished.
C16_SelectionOrder ==
    [][ (lastOp'.name = "onloadend" /\ lastOp'.outcome = "done" /\ lastOp'.input[1].mounted)
          => images' = images \o InSelectionOrder(lastOp'.input[1].files, lastOp'.input[2]) ]_vars

\* The messages suggestCaption returns in place of a caption.
FallbackMessages ==
    { "API Key not configured. Please set the API_KEY environment variable.",
      "Sorry, I couldn't generate a caption right now. Please try again later." }

\* C17: whatever the service does (no API key, a network error, a quota
\* error, an answer), the promise of suggestCaption is fulfilled with a
\* text and never rejected; on every failure the text is a fallback message.
C17_NeverRaises ==
    [][ lastOp'.name = "suggestCaption"
          => /\ lastOp'.outcome = "fulfilled"
             /\ lastOp'.input[2] \in STRING
             /\ (~API_KEY \/ lastOp'.input[3] # "text")
                   => lastOp'.input[2] \in FallbackMessages ]_vars

\* A call that met a service error has settled.
C17_Witness ==
    /\ lastOp.name = "suggestCaption"
    /\ API_KEY
    /\ lastOp.input[3] = "quota error"
    /\ lastOp.input[1].mounted
    /\ caption = lastOp.input[2]

\* C20: suggestCaption is never called with no images: every request in
\* flight carries at least one image, a request starts only from a buffer
\* that holds an image, and the handler called on a buffer without images
\* leaves the caption and the generating flag as they are.
C20_NeverEmpty ==
    /\ [](\A r \in 1..Len(requests) : Len(requests[r].images) > 0)
    /\ [][ lastOp'.name = "handleGenerateCaption"
             => IF Len(images) = 0
                THEN /\ requests' = requests
                     /\ caption' = caption
                     /\ isGeneratingCaption' = isGeneratingCaption
                ELSE /\ requests' = Append(requests, [images |-> images, mounted |-> TRUE])
                     /\ isGeneratingCaption' ]_vars

\* The handler ran on a buffer without images.
C20_Witness ==
    /\ lastOp.name = "handleGenerateCaption"
    /\ isModalOpen
    /\ images = <<>>
    /\ ~isGeneratingCaption
    /\ requests = <<>>

\* C18: no order of statuses is enforced.  Whatever status the open buffer
\* holds (the stored status of the post, or Draft for a new post), each of
\* the other three can be chosen, and Save stores the status chosen: the
\* posts with the saved id, or the new post, carry it after the step.
C18_AnyStatus ==
    /\ [](isModalOpen
             => \A t \in PostStatus \ {status} :
                   ENABLED (onStatusChange(t) /\ UNCHANGED edits))
    /\ [][ lastOp'.name = "handleSavePost"
             => IF selectedPost # <<>>
                THEN \A i \in 1..Len(posts) :
                        posts[i].id = selectedPost[1].id => posts'[i].status = status
                ELSE posts'[Len(posts')].status = status ]_vars

\* An approved post was saved as a draft.
C18_Witness ==
    /\ lastOp.name = "handleSavePost"
    /\ HasId(LastInput)
    /\ LastInput.id[1] = "1"
    /\ posts[1].status = "Draft"
    /\ posts[2] = InitialPosts(AppStart)[2]

\* The stored posts dated on the calendar day of instant d, in list order.
StoredOn(d) ==
    LET OnDay(p) == p.date \div TicksPerDay = d \div TicksPerDay
    IN  SelectSeq(posts, OnDay)

\* C19: every day cell of the displayed month lists the stored posts dated
\* on that day and no other post, in the order of the post list; a cell of
\* a day without posts is empty and a post of another month is in no cell.
C19_Cells ==
    LET cells == CalendarGrid(currentDate, daysInMonth, today, postsByDate).cells
    IN  /\ \A k \in 1..Len(cells) : cells[k].posts = StoredOn(cells[k].date)
        /\ \A i \in 1..Len(posts) :
              (getMonth(posts[i].date) # getMonth(currentDate)
                  \/ getFullYear(posts[i].date) # getFullYear(currentDate))
              => \A k \in 1..Len(cells) :
                    \A j \in 1..Len(cells[k].posts) : cells[k].posts[j] # posts[i]

\* A month other than the start's is displayed and one of its cells holds
\* the post created there, while the two posts of the start's month are
\* stored.
C19_Witness ==
    LET cells == CalendarGrid(currentDate, daysInMonth, today, postsByDate).cells
    IN  /\ getMonth(currentDate) # getMonth(AppStart)
        /\ Len(posts) = 3
        /\ \E k \in 1..Len(cells) : cells[k].posts = <<posts[3]>>

\* C21: selectedPost and selectedDate are never both set; both are null
\* while the modal is closed and exactly one is set while it is open; after
\* every save and every delete the modal is closed and both are null.
C21_Selection ==
    /\ ~(selectedPost # <<>> /\ selectedDate # <<>>)
    /\ ~isModalOpen => selectedPost = <<>> /\ selectedDate = <<>>
    /\ isModalOpen => (selectedPost # <<>>) # (selectedDate # <<>>)
    /\ lastOp.name \in {"handleSavePost", "handleDeletePost"}
          => ~isModalOpen /\ selectedPost = <<>> /\ selectedDate = <<>>

\* A post is open in the modal after an earlier session ended with a save.
C21_Witness ==
    /\ isModalOpen
    /\ selectedPost # <<>>
    /\ selectedDate = <<>>
    /\ Len(posts) = 3

\* The requests in flight that the mounted modal is waiting for.
Awaited == {r \in 1..Len(requests) : requests[r].mounted}

\* C22: an open modal has at most one suggestion request in flight.  A
\* request starts only while the generating flag is false and sets it; the
\* flag is true exactly while the modal's request is in flight, so no second
\* one starts before the first has resolved.
C22_OneInFlight ==
    /\ [](Cardinality(Awaited) <= 1)
    /\ [](isGeneratingCaption <=> Awaited # {})
    /\ [][ lastOp'.name = "handleGenerateCaption" /\ lastOp'.outcome = "await"
             => /\ ~isGeneratingCaption
                /\ Awaited = {}
                /\ isGeneratingCaption' ]_vars

\* The modal waits for its request while a request of an earlier session is
\* still in flight.
C22_Witness ==
    /\ isModalOpen
    /\ isGeneratingCaption
    /\ Len(requests) = 2
    /\ Cardinality(Awaited) = 1

\* C23: the generating flag never stays true for good: a request started
\* in a modal that stays open completes, whether the service answers or
\* fails, and resets the flag, given that the service returns in the end.
C23_Completes == isGeneratingCaption ~> ~isGeneratingCaption

\* The modal's request met a service error and the flag is reset.
C23_Witness ==
    /\ lastOp.name = "suggestCaption"
    /\ lastOp.input[1].mounted
    /\ lastOp.input[3] = "network error"
    /\ isModalOpen
    /\ ~isGeneratingCaption

\* The texts suggestCaption returns.
ReturnedTexts == FallbackMessages \cup {"Sunny days! #happy"}

\* C24: when the result of the modal's own request arrives, the caption
\* becomes the returned text whatever was typed in the meantime, and the
\* images, status and comments of the buffer stay as they are.
C24_Overwrites ==
    [][ (lastOp'.name = "suggestCaption" /\ lastOp'.input[1].mounted)
          => /\ caption' = lastOp'.input[2]
             /\ caption' \in ReturnedTexts
             /\ <<images', status', comments'>> = <<images, status, comments>> ]_vars

\* The result replaced a caption that was typed while the request was in flight.
C24_Witness ==
    /\ lastOp.name = "suggestCaption"
    /\ lastOp.input[1].mounted
    /\ selectedPost # <<>>
    /\ lastOp.input[4] = "A"
    /\ caption = lastOp.input[2]

\* C25: the carousel's index stays in range: whenever the buffer holds an image
\* the index is at least 0 and below the number of images, through any steps
\* of next and previous and any images appended in between; next from the last
\* image goes to 0, previous from 0 goes to the last image, and previous right
\* after next is back at the index it started from.
C25_InRange ==
    /\ [](currentIndex >= 0 /\ (Len(images) > 0 => currentIndex < Len(images)))
    /\ [][ /\ (lastOp'.name = "goToNext" /\ currentIndex = Len(images) - 1)
                => currentIndex' = 0
           /\ (lastOp'.name = "goToPrevious" /\ currentIndex = 0)
                => currentIndex' = Len(images) - 1
           /\ (lastOp.name = "goToNext" /\ lastOp'.name = "goToPrevious")
                => currentIndex' = lastOp.input[1] ]_vars

\* Previous right after a next that wrapped from the last of four images, two
\* of them appended while the modal was open.
C25_Witness ==
    /\ lastOp.name = "goToPrevious"
    /\ lastOp.input[1] = 0
    /\ currentIndex = 3
    /\ Len(images) = 4
    /\ selectedPost # <<>>

\* The stored posts pairwise differ in their ids.
DistinctIds(ps) == \A i, j \in 1..Len(ps) : i # j => ps[i].id # ps[j].id

\* What a step does to the stored dates when it keeps those of the posts
\* stored before it: a Save leaves every stored post at its place with its
\* date, and a post it adds carries the selected day; a Delete leaves only
\* posts that were stored, as they were; no other step touches the store.
DatesKept ==
    /\ lastOp'.name = "handleSavePost"
         => /\ Len(posts') >= Len(posts)
            /\ \A i \in 1..Len(posts) : posts'[i].date = posts[i].date
            /\ Len(posts') > Len(posts)
                 => /\ selectedDate # <<>>
                    /\ posts'[Len(posts')].date = selectedDate[1]
    /\ lastOp'.name = "handleDeletePost"
         => \A j \in 1..Len(posts') : \E i \in 1..Len(posts) : posts'[j] = posts[i]
    /\ lastOp'.name \notin {"handleSavePost", "handleDeletePost"}
         => posts' = posts

\* C26: no modal operation changes the date of a stored post: an update-save
\* writes the post's own date back, so a post keeps its day from creation to
\* deletion, and a post created from a selected day is stored with exactly
\* that day.
C26_DateKept == [][DatesKept]_vars

\* The same, for steps from stores whose ids are pairwise distinct.
C26_DateKeptDistinct == [][DistinctIds(posts) => DatesKept]_vars

====
